---- MODULE Spec2Model ----
(***************************************************************************)
(* A model of the istos graph library: the dense engine UndirectedGraph    *)
(* (packed upper-triangular adjacency matrix) and the sparse engine        *)
(* UndirectedSparseGraph (edge list), both behind the Graph trait.         *)
(*                                                                         *)
(* Rust vectors are 0-indexed; a Rust index i is element i + 1 of the TLA+ *)
(* sequence.  Option<T> is modelled as a sequence: None is << >> and       *)
(* Some(x) is << x >>.  A panic (Vec::insert / Vec::remove / indexing out  *)
(* of range, Option::unwrap on None) aborts the call where it happens and  *)
(* is recorded in the engine's panic flag; the state the object was left   *)
(* in is kept.                                                             *)
(***************************************************************************)
EXTENDS Integers, Sequences, FiniteSets, TLC

\* ------------------------------------------------------------------ bounds
\* add_vertex is called only while next_id < MaxId (lock-step specification)
MaxId == 2
\* add_edge is called only while the sparse edge list is shorter than this
MaxEdges == 2
\* add_vertex is called only while next_id < MaxIdDense (dense-only specification)
MaxIdDense == 5
\* index_vector_with_coords is applied to graphs of 1..MaxLen vertices (packing
\* specification)
MaxLen == 8

\* payloads (the type parameter T)
Data == {"p", "q"}
\* payloads of the dense-only specification
DenseData == {"p"}
\* handle arguments: every handle add_vertex can issue within the bound; a handle
\* is never-issued until next_id passes it, live after that, stale once removed
Handles == 0..(MaxId - 1)
DenseHandles == 0..(MaxIdDense - 1)

VARIABLES
    dense,      \* the UndirectedGraph: [vertices, edges, next_id]
    sparse,     \* the UndirectedSparseGraph: [vertices, edges, next_id]
    d_panic,    \* a call on the dense engine panicked
    s_panic,    \* a call on the sparse engine panicked
    d_issued,   \* handles returned by the dense add_vertex, in call order
    s_issued,   \* handles returned by the sparse add_vertex, in call order
    d_removed,  \* handles that were live when the dense remove_vertex took them
    s_removed,  \* same, sparse
    packing     \* one application of index_vector_with_coords: [len, x, y, ret]

vars == <<dense, sparse, d_panic, s_panic, d_issued, s_issued, d_removed, s_removed,
          packing>>

\* ------------------------------------------------------------------ Option, Vec
None == << >>
Some(x) == << x >>

\* Vec::insert(index, element), defined for index <= len
VecInsert(v, index, e) == SubSeq(v, 1, index) \o << e >> \o SubSeq(v, index + 1, Len(v))
\* Vec::remove(index), defined for index < len
VecRemove(v, index) == SubSeq(v, 1, index) \o SubSeq(v, index + 2, Len(v))

\* the handles of the stored vertex records
VertexIds(vertices) == {vertices[i][1] : i \in 1..Len(vertices)}

\* iter().position(..) / iter().find(..): the first record with this handle
FirstPos(vertices, id) ==
    LET hits == {i \in 1..Len(vertices) : vertices[i][1] = id}
    IN  IF hits = {} THEN None
        ELSE Some((CHOOSE i \in hits : \A j \in hits : i <= j) - 1)

\* ------------------------------------------------------------------ dense engine
Dense_new == [vertices |-> << >>, edges |-> << >>, next_id |-> 0]

\* (a variant that indexes a full, unpacked matrix)
Dense_index_vector_with_coords_square(self, x, y) == x * Len(self.vertices) + y

\* (a variant that leaves out the - 1)
Dense_index_product_plain(self, x) == (Len(self.vertices) * 2 - x) * x

\* the product index_vector_with_coords halves: (self.vertices.len() * 2 - x - 1) * x
Dense_index_product(self, x) == (Len(self.vertices) * 2 - x - 1) * x

Dense_index_vector_with_coords(self, x, y) ==
    IF x <= y
    THEN Dense_index_product(self, x) \div 2 + y
    ELSE Dense_index_product(self, y) \div 2 + x

Dense_get_index_from_id(self, id) == FirstPos(self.vertices, id)

\* the position the i-th pass of add_vertex's loop inserts at
Dense_insert_position(size, i) == size * i

\* for i in 0..=size { self.edges.insert(size * i, false) }
RECURSIVE Dense_add_vertex_loop(_, _, _)
Dense_add_vertex_loop(edges, size, i) ==
    IF i > size THEN [edges |-> edges, panic |-> FALSE]
    ELSE IF Dense_insert_position(size, i) > Len(edges)
         THEN [edges |-> edges, panic |-> TRUE]
         ELSE Dense_add_vertex_loop(
                  VecInsert(edges, Dense_insert_position(size, i), FALSE), size, i + 1)

\* (a variant that forgets the increment)
Dense_fresh_next_id_stuck(self) == self.next_id

\* self.next_id += 1
Dense_fresh_next_id(self) == self.next_id + 1

Dense_add_vertex(self, data) ==
    LET id   == self.next_id
        size == Len(self.vertices)
        r    == Dense_add_vertex_loop(self.edges, size, 0)
    IN  IF r.panic
        THEN [self |-> [self EXCEPT !.edges = r.edges], panic |-> TRUE, ret |-> None]
        ELSE [self |-> [vertices |-> Append(self.vertices, <<id, data>>),
                        edges    |-> r.edges,
                        next_id  |-> Dense_fresh_next_id(self)],
              panic |-> FALSE, ret |-> Some(id)]

\* for i in (0..size).rev() { self.edges.remove(self.index_vector_with_coords(pos, i)) }
RECURSIVE Dense_remove_vertex_loop(_, _, _, _)
Dense_remove_vertex_loop(self, edges, pos, i) ==
    IF i < 0 THEN [edges |-> edges, panic |-> FALSE]
    ELSE LET index == Dense_index_vector_with_coords(self, pos, i)
         IN  IF index >= Len(edges)
             THEN [edges |-> edges, panic |-> TRUE]
             ELSE Dense_remove_vertex_loop(self, VecRemove(edges, index), pos, i - 1)

Dense_remove_vertex(self, vertex_id) ==
    LET p == Dense_get_index_from_id(self, vertex_id)
    IN  IF p = None THEN [self |-> self, panic |-> FALSE]
        ELSE LET pos  == p[1]
                 size == Len(self.vertices)
                 r    == Dense_remove_vertex_loop(self, self.edges, pos, size - 1)
             IN  IF r.panic
                 THEN [self |-> [self EXCEPT !.edges = r.edges], panic |-> TRUE]
                 ELSE [self |-> [self EXCEPT !.edges = r.edges,
                                            !.vertices = VecRemove(self.vertices, pos)],
                       panic |-> FALSE]

\* the shared body of add_edge and remove_edge: self.edges[index] = value
Dense_set_edge(self, vertex_id_1, vertex_id_2, value) ==
    LET p1 == Dense_get_index_from_id(self, vertex_id_1)
        p2 == Dense_get_index_from_id(self, vertex_id_2)
    IN  IF p1 = None \/ p2 = None THEN [self |-> self, panic |-> FALSE]
        ELSE LET index == Dense_index_vector_with_coords(self, p1[1], p2[1])
             IN  IF index >= Len(self.edges)
                 THEN [self |-> self, panic |-> TRUE]
                 ELSE [self |-> [self EXCEPT !.edges[index + 1] = value],
                       panic |-> FALSE]

Dense_add_edge(self, vertex_id_1, vertex_id_2) ==
    Dense_set_edge(self, vertex_id_1, vertex_id_2, TRUE)

Dense_remove_edge(self, vertex_id_1, vertex_id_2) ==
    Dense_set_edge(self, vertex_id_1, vertex_id_2, FALSE)

Dense_get_vertex_data(self, vertex_id) ==
    LET p == FirstPos(self.vertices, vertex_id)
    IN  IF p = None THEN None ELSE Some(self.vertices[p[1] + 1][2])

Dense_set_vertex_data(self, vertex_id, data) ==
    LET p == Dense_get_index_from_id(self, vertex_id)
    IN  IF p = None THEN [self |-> self, panic |-> FALSE]
        ELSE [self |-> [self EXCEPT !.vertices[p[1] + 1][2] = data],
              panic |-> FALSE]

\* [panic, ret]: ret is the boolean returned, panic an out-of-range self.edges[index]
Dense_is_adjacent(self, vertex_id_1, vertex_id_2) ==
    LET p1 == Dense_get_index_from_id(self, vertex_id_1)
        p2 == Dense_get_index_from_id(self, vertex_id_2)
    IN  IF p1 = None \/ p2 = None THEN [panic |-> FALSE, ret |-> FALSE]
        ELSE LET index == Dense_index_vector_with_coords(self, p1[1], p2[1])
             IN  IF index >= Len(self.edges)
                 THEN [panic |-> TRUE, ret |-> FALSE]
                 ELSE [panic |-> FALSE, ret |-> self.edges[index + 1]]

\* for i in 0..self.vertices.len() { if self.is_adjacent(vertex_id, other_id) { res.push(other_id) } }
RECURSIVE Dense_get_neighbors_loop(_, _, _, _)
Dense_get_neighbors_loop(self, vertex_id, i, res) ==
    IF i >= Len(self.vertices) THEN [panic |-> FALSE, ret |-> res]
    ELSE LET other_id == self.vertices[i + 1][1]
             adj      == Dense_is_adjacent(self, vertex_id, other_id)
         IN  IF adj.panic THEN [panic |-> TRUE, ret |-> res]
             ELSE Dense_get_neighbors_loop(self, vertex_id, i + 1,
                      IF adj.ret THEN Append(res, other_id) ELSE res)

Dense_get_neighbors(self, vertex_id) == Dense_get_neighbors_loop(self, vertex_id, 0, << >>)

\* ------------------------------------------------------------------ sparse engine
Sparse_new == [vertices |-> << >>, edges |-> << >>, next_id |-> 0]

Sparse_add_vertex(self, data) ==
    LET id == self.next_id
    IN  [self |-> [vertices |-> Append(self.vertices, <<id, data>>),
                   edges    |-> self.edges,
                   next_id  |-> self.next_id + 1],
         panic |-> FALSE, ret |-> Some(id)]

\* (a variant that drops only the pairs naming the vertex on both sides)
Sparse_edge_survives_vertex_either(x, vertex_id) == x[1] # vertex_id \/ x[2] # vertex_id

\* (a variant that also drops every self-loop)
Sparse_edge_survives_vertex_no_loops(x, vertex_id) ==
    x[1] # vertex_id /\ x[2] # vertex_id /\ x[1] # x[2]

\* the closure of self.edges.retain(..) in remove_vertex
Sparse_edge_survives_vertex(x, vertex_id) == x[1] # vertex_id /\ x[2] # vertex_id

Sparse_remove_vertex(self, vertex_id) ==
    LET keepV(x) == x[1] # vertex_id
        keepE(x) == Sparse_edge_survives_vertex(x, vertex_id)
    IN  [self |-> [self EXCEPT !.vertices = SelectSeq(self.vertices, keepV),
                               !.edges    = SelectSeq(self.edges, keepE)],
         panic |-> FALSE]

\* (a variant that refuses self-loops)
Sparse_add_edge_no_loops(self, vertex_id_1, vertex_id_2) ==
    IF vertex_id_1 = vertex_id_2 THEN [self |-> self, panic |-> FALSE]
    ELSE [self |-> [self EXCEPT !.edges = Append(self.edges, <<vertex_id_1, vertex_id_2>>)],
          panic |-> FALSE]

Sparse_add_edge(self, vertex_id_1, vertex_id_2) ==
    [self |-> [self EXCEPT !.edges = Append(self.edges, <<vertex_id_1, vertex_id_2>>)],
     panic |-> FALSE]

\* (a variant that drops only the pairs stored in the orientation given)
Sparse_edge_survives_edge_exact(x, vertex_id_1, vertex_id_2) ==
    x # <<vertex_id_1, vertex_id_2>>

\* the closure of self.edges.retain(..) in remove_edge
Sparse_edge_survives_edge(x, vertex_id_1, vertex_id_2) ==
    x # <<vertex_id_1, vertex_id_2>> /\ x # <<vertex_id_2, vertex_id_1>>

Sparse_remove_edge(self, vertex_id_1, vertex_id_2) ==
    LET keep(x) == Sparse_edge_survives_edge(x, vertex_id_1, vertex_id_2)
    IN  [self |-> [self EXCEPT !.edges = SelectSeq(self.edges, keep)],
         panic |-> FALSE]

Sparse_get_vertex_data(self, vertex_id) ==
    LET p == FirstPos(self.vertices, vertex_id)
    IN  IF p = None THEN None ELSE Some(self.vertices[p[1] + 1][2])

\* (a variant that writes the payload of the first stored record)
Sparse_set_vertex_data_first(self, vertex_id, data) ==
    LET p == FirstPos(self.vertices, vertex_id)
    IN  IF p = None THEN [self |-> self, panic |-> TRUE]
        ELSE [self |-> [self EXCEPT !.vertices[1][2] = data],
              panic |-> FALSE]

\* iter_mut().find(..).unwrap().1 = data
Sparse_set_vertex_data(self, vertex_id, data) ==
    LET p == FirstPos(self.vertices, vertex_id)
    IN  IF p = None THEN [self |-> self, panic |-> TRUE]
        ELSE [self |-> [self EXCEPT !.vertices[p[1] + 1][2] = data],
              panic |-> FALSE]

\* Vec::contains
Contains(v, e) == \E i \in 1..Len(v) : v[i] = e

Sparse_is_adjacent(self, vertex_id_1, vertex_id_2) ==
    [panic |-> FALSE,
     ret   |-> \/ Contains(self.edges, <<vertex_id_1, vertex_id_2>>)
               \/ Contains(self.edges, <<vertex_id_2, vertex_id_1>>)]

RECURSIVE Sparse_get_neighbors_loop(_, _, _, _)
Sparse_get_neighbors_loop(self, vertex_id, i, res) ==
    IF i >= Len(self.vertices) THEN [panic |-> FALSE, ret |-> res]
    ELSE LET other_id == self.vertices[i + 1][1]
             adj      == Sparse_is_adjacent(self, vertex_id, other_id)
         IN  Sparse_get_neighbors_loop(self, vertex_id, i + 1,
                 IF adj.ret THEN Append(res, other_id) ELSE res)

Sparse_get_neighbors(self, vertex_id) == Sparse_get_neighbors_loop(self, vertex_id, 0, << >>)

\* ------------------------------------------------------------------ observations
DLive(h) == h \in VertexIds(dense.vertices)
SLive(h) == h \in VertexIds(sparse.vertices)
DAdj(h1, h2) == Dense_is_adjacent(dense, h1, h2).ret
SAdj(h1, h2) == Sparse_is_adjacent(sparse, h1, h2).ret
\* the answers of is_adjacent for every pair of handles
Dense_adjacency(self) == [h1, h2 \in Handles |-> Dense_is_adjacent(self, h1, h2)]
Sparse_adjacency(self) == [h1, h2 \in Handles |-> Sparse_is_adjacent(self, h1, h2)]
\* some stored sparse pair mentions h
SMentions(edges, h) == \E i \in 1..Len(edges) : edges[i][1] = h \/ edges[i][2] = h
\* the elements of a sequence
Range(s) == {s[i] : i \in 1..Len(s)}

\* ------------------------------------------------------------------ the two engines driven in lock step
Init ==
    /\ dense = Dense_new
    /\ sparse = Sparse_new
    /\ d_panic = FALSE
    /\ s_panic = FALSE
    /\ d_issued = << >>
    /\ s_issued = << >>
    /\ d_removed = {}
    /\ s_removed = {}
    /\ packing = [len |-> 0, x |-> 0, y |-> 0, ret |-> None]

\* a panic ends the program: nothing is called after it
Running == ~d_panic /\ ~s_panic

AddVertex(data) ==
    /\ Running
    /\ UNCHANGED packing
    /\ dense.next_id < MaxId
    /\ sparse.next_id < MaxId
    /\ LET dr == Dense_add_vertex(dense, data)
           sr == Sparse_add_vertex(sparse, data)
       IN  /\ dense' = dr.self
           /\ d_panic' = dr.panic
           /\ d_issued' = d_issued \o dr.ret
           /\ sparse' = sr.self
           /\ s_panic' = sr.panic
           /\ s_issued' = s_issued \o sr.ret
    /\ UNCHANGED <<d_removed, s_removed>>

RemoveVertex(h) ==
    /\ Running
    /\ UNCHANGED packing
    /\ LET dr == Dense_remove_vertex(dense, h)
           sr == Sparse_remove_vertex(sparse, h)
       IN  /\ dense' = dr.self
           /\ d_panic' = dr.panic
           /\ sparse' = sr.self
           /\ s_panic' = sr.panic
    /\ d_removed' = IF DLive(h) THEN d_removed \cup {h} ELSE d_removed
    /\ s_removed' = IF SLive(h) THEN s_removed \cup {h} ELSE s_removed
    /\ UNCHANGED <<d_issued, s_issued>>

AddEdge(h1, h2) ==
    /\ Running
    /\ UNCHANGED packing
    /\ Len(sparse.edges) < MaxEdges
    /\ LET dr == Dense_add_edge(dense, h1, h2)
           sr == Sparse_add_edge(sparse, h1, h2)
       IN  /\ dense' = dr.self
           /\ d_panic' = dr.panic
           /\ sparse' = sr.self
           /\ s_panic' = sr.panic
    /\ UNCHANGED <<d_issued, s_issued, d_removed, s_removed>>

RemoveEdge(h1, h2) ==
    /\ Running
    /\ UNCHANGED packing
    /\ LET dr == Dense_remove_edge(dense, h1, h2)
           sr == Sparse_remove_edge(sparse, h1, h2)
       IN  /\ dense' = dr.self
           /\ d_panic' = dr.panic
           /\ sparse' = sr.self
           /\ s_panic' = sr.panic
    /\ UNCHANGED <<d_issued, s_issued, d_removed, s_removed>>

SetVertexData(h, data) ==
    /\ Running
    /\ UNCHANGED packing
    /\ LET dr == Dense_set_vertex_data(dense, h, data)
           sr == Sparse_set_vertex_data(sparse, h, data)
       IN  /\ dense' = dr.self
           /\ d_panic' = dr.panic
           /\ sparse' = sr.self
           /\ s_panic' = sr.panic
    /\ UNCHANGED <<d_issued, s_issued, d_removed, s_removed>>

Next ==
    \/ \E data \in Data : AddVertex(data)
    \/ \E h \in Handles : RemoveVertex(h)
    \/ \E h1, h2 \in Handles : AddEdge(h1, h2)
    \/ \E h1, h2 \in Handles : RemoveEdge(h1, h2)
    \/ \E h \in Handles, data \in Data : SetVertexData(h, data)

Spec == Init /\ [][Next]_vars

\* ------------------------------------------------------------------ the dense engine alone
DenseAddVertex(data) ==
    /\ ~d_panic
    /\ UNCHANGED packing
    /\ dense.next_id < MaxIdDense
    /\ LET dr == Dense_add_vertex(dense, data)
       IN  /\ dense' = dr.self
           /\ d_panic' = dr.panic
           /\ d_issued' = d_issued \o dr.ret
    /\ UNCHANGED <<sparse, s_panic, s_issued, s_removed, d_removed>>

DenseRemoveVertex(h) ==
    /\ ~d_panic
    /\ UNCHANGED packing
    /\ LET dr == Dense_remove_vertex(dense, h)
       IN  /\ dense' = dr.self
           /\ d_panic' = dr.panic
    /\ d_removed' = IF DLive(h) THEN d_removed \cup {h} ELSE d_removed
    /\ UNCHANGED <<sparse, s_panic, s_issued, s_removed, d_issued>>

DenseAddEdge(h1, h2) ==
    /\ ~d_panic
    /\ UNCHANGED packing
    /\ LET dr == Dense_add_edge(dense, h1, h2)
       IN  /\ dense' = dr.self
           /\ d_panic' = dr.panic
    /\ UNCHANGED <<sparse, s_panic, s_issued, s_removed, d_issued, d_removed>>

DenseRemoveEdge(h1, h2) ==
    /\ ~d_panic
    /\ UNCHANGED packing
    /\ LET dr == Dense_remove_edge(dense, h1, h2)
       IN  /\ dense' = dr.self
           /\ d_panic' = dr.panic
    /\ UNCHANGED <<sparse, s_panic, s_issued, s_removed, d_issued, d_removed>>

DenseSetVertexData(h, data) ==
    /\ ~d_panic
    /\ UNCHANGED packing
    /\ LET dr == Dense_set_vertex_data(dense, h, data)
       IN  /\ dense' = dr.self
           /\ d_panic' = dr.panic
    /\ UNCHANGED <<sparse, s_panic, s_issued, s_removed, d_issued, d_removed>>

NextDense ==
    \/ \E data \in DenseData : DenseAddVertex(data)
    \/ \E h \in DenseHandles : DenseRemoveVertex(h)
    \/ \E h1, h2 \in DenseHandles : DenseAddEdge(h1, h2)
    \/ \E h1, h2 \in DenseHandles : DenseRemoveEdge(h1, h2)
    \/ \E h \in DenseHandles, data \in DenseData : DenseSetVertexData(h, data)

SpecDense == Init /\ [][NextDense]_vars

\* ------------------------------------------------------------------ the packing function alone
\* a dense graph of len vertices without edges: the receiver of
\* index_vector_with_coords, which reads self.vertices.len() only
Dense_with_len(len) ==
    [vertices |-> [i \in 1..len |-> <<i - 1, "p">>],
     edges    |-> [i \in 1..((len * (len + 1)) \div 2) |-> FALSE],
     next_id  |-> len]

\* the callers pass positions of stored vertices: 0 <= x, y < self.vertices.len()
InitPacking ==
    /\ dense = Dense_new
    /\ sparse = Sparse_new
    /\ d_panic = FALSE
    /\ s_panic = FALSE
    /\ d_issued = << >>
    /\ s_issued = << >>
    /\ d_removed = {}
    /\ s_removed = {}
    /\ \E len \in 1..MaxLen : \E x, y \in 0..(len - 1) :
          packing = [len |-> len, x |-> x, y |-> y, ret |-> None]

IndexVectorWithCoords ==
    /\ packing.ret = None
    /\ packing' = [packing EXCEPT !.ret =
           Some(Dense_index_vector_with_coords(Dense_with_len(packing.len),
                                               packing.x, packing.y))]
    /\ UNCHANGED <<dense, sparse, d_panic, s_panic, d_issued, s_issued, d_removed, s_removed>>

NextPacking == IndexVectorWithCoords

SpecPacking == InitPacking /\ [][NextPacking]_vars

\* ------------------------------------------------------------------ properties
StrictlyIncreasing(s) == \A i, j \in 1..Len(s) : i < j => s[i] < s[j]
Occurrences(s, e) == Cardinality({i \in 1..Len(s) : s[i] = e})
DistinctIds(vertices) ==
    \A i, j \in 1..Len(vertices) : i # j => vertices[i][1] # vertices[j][1]

\* C1: the same calls made on a fresh dense and a fresh sparse graph leave every
\* query with the same answer in both: neither call fails where the other returns,
\* add_vertex returned the same handles, get_vertex_data and is_adjacent agree on
\* every handle and handle pair, and get_neighbors agrees as a set.
C1_CrossEngineEquivalence ==
    /\ d_panic = s_panic
    /\ d_issued = s_issued
    /\ \A h \in Handles :
          Dense_get_vertex_data(dense, h) = Sparse_get_vertex_data(sparse, h)
    /\ \A h1, h2 \in Handles :
          Dense_is_adjacent(dense, h1, h2) = Sparse_is_adjacent(sparse, h1, h2)
    /\ \A h \in Handles :
          Range(Dense_get_neighbors(dense, h).ret) = Range(Sparse_get_neighbors(sparse, h).ret)

\* C2: in the dense engine no call reaches an out-of-range position of the packed
\* edge vector: add_vertex never inserts past the end, remove_vertex never removes
\* at or past the end, add_edge, remove_edge and is_adjacent never index at or past
\* the end; so add_vertex always succeeds.
C2_DenseNoOutOfRange ==
    /\ ~d_panic
    /\ \A h1, h2 \in DenseHandles : ~Dense_is_adjacent(dense, h1, h2).panic

\* C3: in both engines the handles add_vertex returned are strictly increasing (so
\* pairwise distinct), a handle that was removed has been returned exactly once and
\* the next add_vertex returns a handle larger than every handle returned so far
\* and not a removed one, and the stored records carry pairwise distinct handles,
\* all smaller than next_id.
C3_HandlesFresh ==
    /\ StrictlyIncreasing(d_issued)
    /\ StrictlyIncreasing(s_issued)
    /\ \A h \in d_removed : Occurrences(d_issued, h) = 1
    /\ \A h \in s_removed : Occurrences(s_issued, h) = 1
    /\ \A data \in Data :
          LET ret == Dense_add_vertex(dense, data).ret
          IN  ret # None =>
                  /\ ret[1] \notin d_removed
                  /\ \A i \in 1..Len(d_issued) : d_issued[i] < ret[1]
    /\ \A data \in Data :
          LET ret == Sparse_add_vertex(sparse, data).ret
          IN  ret # None =>
                  /\ ret[1] \notin s_removed
                  /\ \A i \in 1..Len(s_issued) : s_issued[i] < ret[1]
    /\ DistinctIds(dense.vertices)
    /\ DistinctIds(sparse.vertices)
    /\ \A h \in VertexIds(dense.vertices) : h < dense.next_id
    /\ \A h \in VertexIds(sparse.vertices) : h < sparse.next_id

\* in both engines a handle was issued and removed, a later one is live, and the
\* next add_vertex returns yet another
C3_Witness ==
    /\ \E h \in d_removed : \E w \in VertexIds(dense.vertices) : h < w
    /\ \E h \in s_removed : \E w \in VertexIds(sparse.vertices) : h < w
    /\ Dense_add_vertex(dense, "p").ret = Some(Len(d_issued))
    /\ Sparse_add_vertex(sparse, "p").ret = Some(Len(s_issued))
    /\ Len(d_issued) >= 2

\* C4: in both engines is_adjacent(h1, h2) is false whenever h1 or h2 is not the
\* handle of a live vertex.
C4_NotLiveNotAdjacent ==
    \A h1, h2 \in Handles :
        /\ (~DLive(h1) \/ ~DLive(h2)) => ~DAdj(h1, h2)
        /\ (~SLive(h1) \/ ~SLive(h2)) => ~SAdj(h1, h2)

\* C5: in both engines add_edge(h1, h2) with h1 or h2 not live returns normally
\* and changes nothing: vertex storage, edge storage and next_id are as before the
\* call (so every later query answers as if the call had not been made).
C5_AddEdgeNotLiveNoOp ==
    \A h1, h2 \in Handles :
        /\ (~DLive(h1) \/ ~DLive(h2)) =>
              Dense_add_edge(dense, h1, h2) = [self |-> dense, panic |-> FALSE]
        /\ (~SLive(h1) \/ ~SLive(h2)) =>
              Sparse_add_edge(sparse, h1, h2) = [self |-> sparse, panic |-> FALSE]

\* C6: in both engines a handle that is not live makes no call fail:
\* set_vertex_data(h, d) returns normally and leaves the graph as it was, and
\* get_vertex_data(h) is None.
C6_NotLiveNeverFails ==
    \A h \in Handles :
        /\ ~DLive(h) =>
              /\ Dense_get_vertex_data(dense, h) = None
              /\ \A data \in Data :
                    Dense_set_vertex_data(dense, h, data) = [self |-> dense, panic |-> FALSE]
        /\ ~SLive(h) =>
              /\ Sparse_get_vertex_data(sparse, h) = None
              /\ \A data \in Data :
                    Sparse_set_vertex_data(sparse, h, data) = [self |-> sparse, panic |-> FALSE]

\* C7: in both engines, in every reachable state and for live handles a and b
\* (equal or not): right after add_edge(a, b), is_adjacent(a, b) and
\* is_adjacent(b, a) are true; right after remove_edge(a, b) both are false, also
\* when the remove follows one more add_edge(a, b) or add_edge(b, a), however many
\* pairs the earlier calls had stored.
C7_AddThenRemoveEdge ==
    \A a, b \in Handles :
        /\ (DLive(a) /\ DLive(b)) =>
              LET added    == Dense_add_edge(dense, a, b).self
                  removed  == Dense_remove_edge(dense, a, b).self
                  removed1 == Dense_remove_edge(added, a, b).self
                  removed2 == Dense_remove_edge(Dense_add_edge(dense, b, a).self, a, b).self
              IN  /\ Dense_is_adjacent(added, a, b).ret
                  /\ Dense_is_adjacent(added, b, a).ret
                  /\ \A g \in {removed, removed1, removed2} :
                        /\ ~Dense_is_adjacent(g, a, b).ret
                        /\ ~Dense_is_adjacent(g, b, a).ret
        /\ (SLive(a) /\ SLive(b)) =>
              LET added    == Sparse_add_edge(sparse, a, b).self
                  removed  == Sparse_remove_edge(sparse, a, b).self
                  removed1 == Sparse_remove_edge(added, a, b).self
                  removed2 == Sparse_remove_edge(Sparse_add_edge(sparse, b, a).self, a, b).self
              IN  /\ Sparse_is_adjacent(added, a, b).ret
                  /\ Sparse_is_adjacent(added, b, a).ret
                  /\ \A g \in {removed, removed1, removed2} :
                        /\ ~Sparse_is_adjacent(g, a, b).ret
                        /\ ~Sparse_is_adjacent(g, b, a).ret

\* two different live vertices are joined by an edge that the sparse list holds
\* twice, once in each orientation, so that remove_edge has two pairs to take
C7_Witness ==
    \E a, b \in Handles :
        /\ a < b
        /\ DLive(a) /\ DLive(b) /\ SLive(a) /\ SLive(b)
        /\ DAdj(a, b)
        /\ Contains(sparse.edges, <<a, b>>) /\ Contains(sparse.edges, <<b, a>>)
        /\ Len(Sparse_remove_edge(sparse, a, b).self.edges) = Len(sparse.edges) - 2
        /\ Dense_remove_edge(dense, a, b).self # dense

\* C8: in both engines is_adjacent(a, b) = is_adjacent(b, a) for all handles,
\* live, removed or never issued.
C8_AdjacencySymmetric ==
    \A a, b \in Handles :
        /\ Dense_is_adjacent(dense, a, b) = Dense_is_adjacent(dense, b, a)
        /\ Sparse_is_adjacent(sparse, a, b) = Sparse_is_adjacent(sparse, b, a)

\* two live vertices joined by an edge that the sparse list holds in one
\* orientation only, while neither has a self-loop
C8_Witness ==
    /\ Len(dense.vertices) >= 2 /\ Len(sparse.vertices) >= 2
    /\ \E a, b \in Handles :
          /\ a < b
          /\ DAdj(a, b) /\ DAdj(b, a)
          /\ Contains(sparse.edges, <<b, a>>) /\ ~Contains(sparse.edges, <<a, b>>)
          /\ SAdj(a, b)
          /\ ~DAdj(a, a) /\ ~DAdj(b, b) /\ ~SAdj(a, a) /\ ~SAdj(b, b)

\* C9: in both engines, in every reachable state, right after remove_vertex(v) of
\* a live v the number of live vertices is one less, get_vertex_data(v) is None,
\* is_adjacent(v, w) and is_adjacent(w, v) are false for every w, and no stored
\* sparse pair mentions v.
C9_RemoveVertexPurges ==
    \A v \in Handles :
        /\ DLive(v) =>
              LET r == Dense_remove_vertex(dense, v)
                  g == r.self
              IN  /\ ~r.panic
                  /\ Len(g.vertices) = Len(dense.vertices) - 1
                  /\ Cardinality(VertexIds(g.vertices))
                         = Cardinality(VertexIds(dense.vertices)) - 1
                  /\ Dense_get_vertex_data(g, v) = None
                  /\ \A w \in Handles : /\ ~Dense_is_adjacent(g, v, w).ret
                                        /\ ~Dense_is_adjacent(g, w, v).ret
        /\ SLive(v) =>
              LET r == Sparse_remove_vertex(sparse, v)
                  g == r.self
              IN  /\ ~r.panic
                  /\ Len(g.vertices) = Len(sparse.vertices) - 1
                  /\ Cardinality(VertexIds(g.vertices))
                         = Cardinality(VertexIds(sparse.vertices)) - 1
                  /\ Sparse_get_vertex_data(g, v) = None
                  /\ \A w \in Handles : /\ ~Sparse_is_adjacent(g, v, w).ret
                                        /\ ~Sparse_is_adjacent(g, w, v).ret
                  /\ ~SMentions(g.edges, v)

\* two different vertices are live and adjacent in both engines, one of them with
\* a self-loop: remove_vertex of that one has edges to purge and leaves the other
C9_Witness ==
    \E v, w \in Handles :
        /\ v # w
        /\ DLive(v) /\ DLive(w) /\ SLive(v) /\ SLive(w)
        /\ DAdj(v, w) /\ SAdj(v, w)
        /\ DAdj(v, v) /\ SAdj(v, v)
        /\ Len(Dense_remove_vertex(dense, v).self.edges) < Len(dense.edges)
        /\ Len(Sparse_remove_vertex(sparse, v).self.edges) = 0

\* C10: in both engines get_neighbors(h) lists, in increasing handle order and
\* without repetition, exactly the live handles w with is_adjacent(h, w); it is
\* empty when h is not live.
C10_GetNeighbors ==
    \A h \in Handles :
        /\ LET n == Dense_get_neighbors(dense, h).ret
           IN  /\ StrictlyIncreasing(n)
               /\ Range(n) = {w \in VertexIds(dense.vertices) : DAdj(h, w)}
               /\ ~DLive(h) => n = << >>
        /\ LET n == Sparse_get_neighbors(sparse, h).ret
           IN  /\ StrictlyIncreasing(n)
               /\ Range(n) = {w \in VertexIds(sparse.vertices) : SAdj(h, w)}
               /\ ~SLive(h) => n = << >>

\* the self-loop property of C11 in the current state: add_edge(v, v) and
\* remove_edge(v, v) applied to the graphs as they are now
C11_SelfLoops_here ==
    LET dadj == Dense_adjacency(dense)
        sadj == Sparse_adjacency(sparse)
    IN
    \A v \in Handles :
        /\ DLive(v) =>
              LET a == Dense_add_edge(dense, v, v)
                  r == Dense_remove_edge(a.self, v, v)
              IN  /\ ~a.panic /\ ~r.panic
                  /\ Dense_is_adjacent(a.self, v, v) = [panic |-> FALSE, ret |-> TRUE]
                  /\ v \in Range(Dense_get_neighbors(a.self, v).ret)
                  /\ \A x, y \in Handles :
                        {x, y} # {v} =>
                            Dense_is_adjacent(a.self, x, y) = dadj[x, y]
                  /\ Dense_is_adjacent(r.self, v, v) = [panic |-> FALSE, ret |-> FALSE]
                  /\ ~Dense_is_adjacent(Dense_remove_edge(dense, v, v).self, v, v).ret
        /\ SLive(v) =>
              LET a == Sparse_add_edge(sparse, v, v)
                  r == Sparse_remove_edge(a.self, v, v)
              IN  /\ ~a.panic /\ ~r.panic
                  /\ Sparse_is_adjacent(a.self, v, v) = [panic |-> FALSE, ret |-> TRUE]
                  /\ v \in Range(Sparse_get_neighbors(a.self, v).ret)
                  /\ \A x, y \in Handles :
                        {x, y} # {v} =>
                            Sparse_is_adjacent(a.self, x, y) = sadj[x, y]
                  /\ Sparse_is_adjacent(r.self, v, v) = [panic |-> FALSE, ret |-> FALSE]
                  /\ ~Sparse_is_adjacent(Sparse_remove_edge(sparse, v, v).self, v, v).ret

\* C11: self-loops, in both engines: for a live handle v, right after
\* add_edge(v, v) is_adjacent(v, v) is true and get_neighbors(v) contains v, the
\* answer of is_adjacent for every other pair of handles is as before the call,
\* and right after remove_edge(v, v) is_adjacent(v, v) is false again.
\* This holds in every reachable state.
C11_SelfLoops == []C11_SelfLoops_here

\* a live vertex without a self-loop, adjacent to another live vertex that has
\* one: add_edge(v, v) has a cell to set and neighbours to leave alone
C11_Witness ==
    \E v, w \in Handles :
        /\ v # w
        /\ DLive(v) /\ DLive(w) /\ SLive(v) /\ SLive(w)
        /\ ~DAdj(v, v) /\ ~SAdj(v, v)
        /\ DAdj(v, w) /\ SAdj(v, w)
        /\ DAdj(w, w) /\ SAdj(w, w)
        /\ Dense_add_edge(dense, v, v).self # dense

\* what a caller can observe of a dense graph through the queries
Dense_observe(self) ==
    [data      |-> [h \in Handles |-> Dense_get_vertex_data(self, h)],
     adjacent  |-> [h1, h2 \in Handles |-> Dense_is_adjacent(self, h1, h2)],
     neighbors |-> [h \in Handles |-> Dense_get_neighbors(self, h)]]

\* what a caller can observe of a sparse graph through the queries
Sparse_observe(self) ==
    [data      |-> [h \in Handles |-> Sparse_get_vertex_data(self, h)],
     adjacent  |-> [h1, h2 \in Handles |-> Sparse_is_adjacent(self, h1, h2)],
     neighbors |-> [h \in Handles |-> Sparse_get_neighbors(self, h)]]

\* C12 (dense half): remove_edge(h1, h2) returns normally, leaves the vertex
\* records and next_id alone and the answer of is_adjacent for every pair other
\* than {h1, h2}; when {h1, h2} is not an edge or a handle is not live, no query
\* answers differently after the call.
C12_DenseRemoveEdgeFrame ==
    \A h1, h2 \in Handles :
        LET r == Dense_remove_edge(dense, h1, h2)
        IN  /\ ~r.panic
            /\ r.self.vertices = dense.vertices
            /\ r.self.next_id = dense.next_id
            /\ \A a, b \in Handles :
                  {a, b} # {h1, h2} =>
                      Dense_is_adjacent(r.self, a, b) = Dense_is_adjacent(dense, a, b)
            /\ (~DAdj(h1, h2) \/ ~DLive(h1) \/ ~DLive(h2)) =>
                  Dense_observe(r.self) = Dense_observe(dense)

\* C12 (sparse half), same statement for the sparse engine
C12_SparseRemoveEdgeFrame ==
    \A h1, h2 \in Handles :
        LET r == Sparse_remove_edge(sparse, h1, h2)
        IN  /\ ~r.panic
            /\ r.self.vertices = sparse.vertices
            /\ r.self.next_id = sparse.next_id
            /\ \A a, b \in Handles :
                  {a, b} # {h1, h2} =>
                      Sparse_is_adjacent(r.self, a, b) = Sparse_is_adjacent(sparse, a, b)
            /\ (~SAdj(h1, h2) \/ ~SLive(h1) \/ ~SLive(h2)) =>
                  Sparse_observe(r.self) = Sparse_observe(sparse)

\* C12: in both engines remove_edge(h1, h2) changes the adjacency of the
\* unordered pair {h1, h2} only: is_adjacent of every other pair, the vertex
\* payloads and next_id are as before; and when {h1, h2} is not an edge, or a
\* handle is not live, nothing observable changes.
C12_RemoveEdgeFrame == C12_DenseRemoveEdgeFrame /\ C12_SparseRemoveEdgeFrame

\* C13 (dense half): remove_vertex(h) with h not live returns normally and leaves
\* the vertex records, the packed edge vector and next_id as they were.
C13_DenseRemoveVertexNotLive ==
    \A h \in Handles :
        ~DLive(h) => Dense_remove_vertex(dense, h) = [self |-> dense, panic |-> FALSE]

\* C13 (sparse half), same statement for the sparse engine and its edge list
C13_SparseRemoveVertexNotLive ==
    \A h \in Handles :
        ~SLive(h) => Sparse_remove_vertex(sparse, h) = [self |-> sparse, panic |-> FALSE]

\* C13: in both engines remove_vertex(h) with h not a live handle (never issued,
\* or already removed) is a no-op: the vertex records, the edge storage and
\* next_id are all unchanged.
C13_RemoveVertexNotLiveNoOp ==
    C13_DenseRemoveVertexNotLive /\ C13_SparseRemoveVertexNotLive

\* C14: the dense add_vertex keeps existing edges in place: for all handles a, b
\* live before the call (a = b included), is_adjacent(a, b) answers right after
\* an add_vertex that returned as it did right before it.
C14_DenseAddVertexKeepsEdges ==
    \A data \in DenseData :
        LET r == Dense_add_vertex(dense, data)
        IN  ~r.panic =>
                \A a, b \in VertexIds(dense.vertices) :
                    Dense_is_adjacent(r.self, a, b) = Dense_is_adjacent(dense, a, b)

\* C15 (dense half): right after h = add_vertex(d) returned, get_vertex_data(h) is
\* d, is_adjacent(h, w) and is_adjacent(w, h) are false for every handle w (h
\* included), get_neighbors(h) is empty, and every vertex live before the call
\* has the payload it had.
C15_DenseFreshVertexIsolated ==
    \A data \in Data :
        LET r == Dense_add_vertex(dense, data)
        IN  ~r.panic =>
                LET h == r.ret[1]
                IN  /\ r.ret # None
                    /\ Dense_get_vertex_data(r.self, h) = Some(data)
                    /\ \A w \in Handles \cup {h} :
                          /\ Dense_is_adjacent(r.self, h, w) = [panic |-> FALSE, ret |-> FALSE]
                          /\ Dense_is_adjacent(r.self, w, h) = [panic |-> FALSE, ret |-> FALSE]
                    /\ Dense_get_neighbors(r.self, h) = [panic |-> FALSE, ret |-> << >>]
                    /\ \A a \in VertexIds(dense.vertices) :
                          Dense_get_vertex_data(r.self, a) = Dense_get_vertex_data(dense, a)

\* C15 (sparse half), same statement for the sparse engine
C15_SparseFreshVertexIsolated ==
    \A data \in Data :
        LET r == Sparse_add_vertex(sparse, data)
        IN  ~r.panic =>
                LET h == r.ret[1]
                IN  /\ r.ret # None
                    /\ Sparse_get_vertex_data(r.self, h) = Some(data)
                    /\ \A w \in Handles \cup {h} :
                          /\ Sparse_is_adjacent(r.self, h, w) = [panic |-> FALSE, ret |-> FALSE]
                          /\ Sparse_is_adjacent(r.self, w, h) = [panic |-> FALSE, ret |-> FALSE]
                    /\ Sparse_get_neighbors(r.self, h) = [panic |-> FALSE, ret |-> << >>]
                    /\ \A a \in VertexIds(sparse.vertices) :
                          Sparse_get_vertex_data(r.self, a) = Sparse_get_vertex_data(sparse, a)

\* C15: a freshly created vertex is isolated in both engines: right after
\* h = add_vertex(d), get_vertex_data(h) is d, is_adjacent(h, w) is false for every
\* handle w including h, get_neighbors(h) is empty, and the payloads of the other
\* live vertices are unchanged.
C15_FreshVertexIsolated == C15_DenseFreshVertexIsolated /\ C15_SparseFreshVertexIsolated

\* the number of cells of a packed upper-triangular matrix over v vertices
PackedLen(v) == (v * (v + 1)) \div 2

\* C16 (between calls): the packed vector has V*(V+1)/2 entries whenever no call
\* has failed.
C16_DenseLengthWhileRunning ==
    ~d_panic => Len(dense.edges) = PackedLen(Len(dense.vertices))

\* C16 (remove_vertex): remove_vertex of a live handle returns and shortens the
\* packed vector by exactly V, the number of vertices before the call.
C16_DenseRemoveVertexShrinks ==
    ~d_panic =>
        \A h \in VertexIds(dense.vertices) :
            LET r == Dense_remove_vertex(dense, h)
            IN  /\ ~r.panic
                /\ Len(r.self.edges) = Len(dense.edges) - Len(dense.vertices)
                /\ Len(r.self.edges) = PackedLen(Len(r.self.vertices))

\* C16: dense length invariant: in every reachable state edges.len() is
\* V*(V+1)/2 with V = vertices.len(); add_vertex lengthens the vector by exactly
\* V+1 and remove_vertex of a live handle shortens it by exactly V (V counted
\* before the call).
C16_DenseLengthInvariant ==
    /\ Len(dense.edges) = PackedLen(Len(dense.vertices))
    /\ \A data \in DenseData :
          LET r == Dense_add_vertex(dense, data)
          IN  /\ ~r.panic
              /\ Len(r.self.edges) = Len(dense.edges) + Len(dense.vertices) + 1
    /\ \A h \in VertexIds(dense.vertices) :
          LET r == Dense_remove_vertex(dense, h)
          IN  /\ ~r.panic
              /\ Len(r.self.edges) = Len(dense.edges) - Len(dense.vertices)

\* the positions remove_vertex takes out of the packed vector, in the order the
\* loop visits them: index_vector_with_coords(pos, i) for i = size - 1 down to 0
Dense_remove_positions(self, pos) ==
    [k \in 1..Len(self.vertices) |->
        Dense_index_vector_with_coords(self, pos, Len(self.vertices) - k)]

\* the cells of row / column pos of the packed matrix
Dense_row_cells(self, pos) ==
    {Dense_index_vector_with_coords(self, pos, i) : i \in 0..(Len(self.vertices) - 1)}

\* a vector without the cells at the given (0-based) positions
DropCells(v, positions) ==
    LET kept == {i \in 1..Len(v) : (i - 1) \notin positions}
        nth(k) == CHOOSE i \in kept : Cardinality({j \in kept : j < i}) = k - 1
    IN  [k \in 1..Cardinality(kept) |-> v[nth(k)]]

\* C17 (dense half): right after remove_vertex(v) of a live v every other live
\* handle has the payload it had, the remaining records are in the order they
\* were in, is_adjacent answers as before for every pair of remaining live
\* handles, and the positions the loop removed, visited from last to first, are
\* exactly the V cells of the removed row / column.
C17_DenseRemoveVertexFrame ==
    ~d_panic =>
    \A v \in VertexIds(dense.vertices) :
        LET r    == Dense_remove_vertex(dense, v)
            g    == r.self
            pos  == Dense_get_index_from_id(dense, v)[1]
            ps   == Dense_remove_positions(dense, pos)
            keep(x) == x[1] # v
        IN  /\ ~r.panic
            /\ g.vertices = SelectSeq(dense.vertices, keep)
            /\ g.next_id = dense.next_id
            /\ \A a \in VertexIds(g.vertices) :
                  Dense_get_vertex_data(g, a) = Dense_get_vertex_data(dense, a)
            /\ \A a, b \in VertexIds(g.vertices) :
                  Dense_is_adjacent(g, a, b) = Dense_is_adjacent(dense, a, b)
            /\ \A i, j \in 1..Len(ps) : i < j => ps[i] > ps[j]
            /\ Range(ps) = Dense_row_cells(dense, pos)
            /\ Cardinality(Range(ps)) = Len(dense.vertices)
            /\ \A i \in 1..Len(ps) : ps[i] < Len(dense.edges)
            /\ g.edges = DropCells(dense.edges, Range(ps))

\* C17 (sparse half): right after remove_vertex(v) of a live v every other live
\* handle has the payload it had, the remaining records are in the order they
\* were in, and is_adjacent answers as before for every pair of remaining live
\* handles.
C17_SparseRemoveVertexFrame ==
    \A v \in VertexIds(sparse.vertices) :
        LET r    == Sparse_remove_vertex(sparse, v)
            g    == r.self
            keep(x) == x[1] # v
        IN  /\ ~r.panic
            /\ g.vertices = SelectSeq(sparse.vertices, keep)
            /\ g.next_id = sparse.next_id
            /\ \A a \in VertexIds(g.vertices) :
                  Sparse_get_vertex_data(g, a) = Sparse_get_vertex_data(sparse, a)
            /\ \A a, b \in VertexIds(g.vertices) :
                  Sparse_is_adjacent(g, a, b) = Sparse_is_adjacent(sparse, a, b)

\* the frame property of C17 in the current state: remove_vertex applied to the
\* graphs as they are now
C17_RemoveVertexFrame_here == C17_DenseRemoveVertexFrame /\ C17_SparseRemoveVertexFrame

RECURSIVE RowsBefore(_, _)
RowsBefore(len, i) == IF i = 0 THEN 0 ELSE RowsBefore(len, i - 1) + (len - (i - 1))
RowMajorOffset(len, i, j) == RowsBefore(len, i) + (j - i)

Min(a, b) == IF a <= b THEN a ELSE b
Max(a, b) == IF a <= b THEN b ELSE a

\* C18: the dense packing function is a symmetric bijection: for V >= 1 and
\* positions 0 <= x, y < V, index_vector_with_coords(x, y) equals
\* index_vector_with_coords(y, x), lies in [0, V*(V+1)/2), is the row-major
\* upper-triangular offset of cell (min(x,y), max(x,y)) where row i holds V - i
\* entries, and is the offset of no other unordered pair; the product
\* (2V - x - 1) * x it halves is even, and no subtraction in it goes below zero.
C18_PackingBijection ==
    packing.ret # None =>
        LET len  == packing.len
            x    == packing.x
            y    == packing.y
            self == Dense_with_len(len)
            lo   == Min(x, y)
        IN  /\ packing.ret = Some(Dense_index_vector_with_coords(self, y, x))
            /\ packing.ret[1] >= 0
            /\ packing.ret[1] < PackedLen(len)
            /\ packing.ret[1] = RowMajorOffset(len, lo, Max(x, y))
            /\ \A x2, y2 \in 0..(len - 1) :
                  Dense_index_vector_with_coords(self, x2, y2) = packing.ret[1]
                      => {x2, y2} = {x, y}
            /\ {Dense_index_vector_with_coords(self, x2, y2) : x2, y2 \in 0..(len - 1)}
                  = 0..(PackedLen(len) - 1)
            /\ Dense_index_product(self, lo) % 2 = 0
            /\ Dense_index_product(self, lo) >= 0
            /\ len * 2 - lo >= 0
            /\ len * 2 - lo - 1 >= 0

\* the function was applied below the diagonal, in neither the first row nor the
\* first column, of a matrix of at least four vertices, and gave the offset of the
\* mirrored cell
C18_Witness ==
    /\ packing.ret # None
    /\ packing.len >= 4
    /\ packing.x > packing.y
    /\ packing.y >= 1
    /\ packing.ret[1] = RowMajorOffset(packing.len, packing.y, packing.x)
    /\ packing.ret[1] # packing.x * packing.len + packing.y

\* the handles of the stored records, in storage order
VertexOrder(vertices) == [i \in 1..Len(vertices) |-> vertices[i][1]]

\* the frame property of C19 in the current state: set_vertex_data applied to the
\* graphs as they are now
C19_SetVertexDataFrame_here ==
    LET dadj == Dense_adjacency(dense)
        sadj == Sparse_adjacency(sparse)
    IN
    \A h \in Handles : \A data \in Data :
        /\ DLive(h) =>
              LET r == Dense_set_vertex_data(dense, h, data)
                  g == r.self
              IN  /\ ~r.panic
                  /\ Dense_get_vertex_data(g, h) = Some(data)
                  /\ \A a \in VertexIds(dense.vertices) \ {h} :
                        Dense_get_vertex_data(g, a) = Dense_get_vertex_data(dense, a)
                  /\ VertexOrder(g.vertices) = VertexOrder(dense.vertices)
                  /\ g.next_id = dense.next_id
                  /\ g.edges = dense.edges
                  /\ Dense_adjacency(g) = dadj
        /\ SLive(h) =>
              LET r == Sparse_set_vertex_data(sparse, h, data)
                  g == r.self
              IN  /\ ~r.panic
                  /\ Sparse_get_vertex_data(g, h) = Some(data)
                  /\ \A a \in VertexIds(sparse.vertices) \ {h} :
                        Sparse_get_vertex_data(g, a) = Sparse_get_vertex_data(sparse, a)
                  /\ VertexOrder(g.vertices) = VertexOrder(sparse.vertices)
                  /\ g.next_id = sparse.next_id
                  /\ g.edges = sparse.edges
                  /\ Sparse_adjacency(g) = sadj

\* C19: in both engines set_vertex_data(h, d) on a live handle h returns, makes
\* get_vertex_data(h) answer d and changes nothing else: every other live vertex
\* has the payload it had, the order of the records, next_id, the edge storage and
\* the answer of is_adjacent for every pair of handles are as before.
\* This holds in every reachable state.
C19_SetVertexDataFrame == []C19_SetVertexDataFrame_here

\* two live vertices in both engines, joined by an edge, both with payload "p":
\* set_vertex_data of the second stored one to "q" has a payload to change and
\* another to leave alone
C19_Witness ==
    \E h, w \in Handles :
        /\ w < h
        /\ VertexOrder(dense.vertices) = <<w, h>>
        /\ VertexOrder(sparse.vertices) = <<w, h>>
        /\ Dense_get_vertex_data(dense, h) = Some("p")
        /\ Dense_get_vertex_data(dense, w) = Some("p")
        /\ Sparse_get_vertex_data(sparse, h) = Some("p")
        /\ Sparse_get_vertex_data(sparse, w) = Some("p")
        /\ DAdj(h, w) /\ SAdj(h, w)
        /\ Dense_set_vertex_data(dense, h, "q").self # dense
        /\ Sparse_set_vertex_data(sparse, h, "q").self # sparse

====
